---- MODULE Spec2Model ----
(***************************************************************************)
(* release-tag-commit: the version-decision helpers of src/index.ts        *)
(* (parseTagFromName, compareTags, detectVersionIncrease, nextTag,         *)
(* formatTagToString) and the orchestration of run against a repository    *)
(* host.  Strings are sequences of one-character strings, so that the      *)
(* regular expressions of the source are matched character by character.   *)
(***************************************************************************)
EXTENDS Integers, Sequences, FiniteSets, TLC

VARIABLES
    pure,       \* one application of a pure helper: [op, arg, done, out]
    inputs,     \* the action inputs after conversion (index.ts 80-85)
    pr,         \* github.context.payload.pull_request
    host,       \* the repository host: PR commits, tags/refs, releases, comments
    run,        \* the locals of run() and its position
    calls,      \* the host calls run has made, in order
    report      \* what run reported through core: setFailed / warning counts

vars == <<pure, inputs, pr, host, run, calls, report>>

(***************************************************************************)
(* Bounds of the model.                                                    *)
(***************************************************************************)
MaxComponent == 11   \* version components drawn for format/parse: 0..MaxComponent
MaxCmp == 2          \* version components drawn for compareTags: 0..MaxCmp
MaxSegments == 4     \* dot-separated segments of a drawn tag name: 1..MaxSegments
MaxCommits == 2      \* commits of the pull request: 1..MaxCommits
MaxTags == 2         \* tags the host holds initially: 0..MaxTags

(***************************************************************************)
(* Characters and strings.                                                 *)
(***************************************************************************)
\* JavaScript null / undefined where a string or an array is expected.
Null == <<>>
NoName == <<"undefined">>
NullBump == "null"

\* A local of run that has not been assigned yet.
Unset == "unset"

\* The characters \s matches, among those the model draws.
Whitespace == {" ", "\t", "\n", "\r"}

\* The characters after which ^ matches under the m flag.
LineTerminators == {"\n", "\r"}

DigitChars == <<"0", "1", "2", "3", "4", "5", "6", "7", "8", "9">>

UpperChars == <<"A", "B", "C", "D", "E", "F", "G", "H", "I", "J", "K", "L", "M",
                "N", "O", "P", "Q", "R", "S", "T", "U", "V", "W", "X", "Y", "Z">>

LowerChars == <<"a", "b", "c", "d", "e", "f", "g", "h", "i", "j", "k", "l", "m",
                "n", "o", "p", "q", "r", "s", "t", "u", "v", "w", "x", "y", "z">>

IsDigit(c) == \E i \in 1..10 : DigitChars[i] = c

IsLowerLetter(c) == \E i \in 1..26 : LowerChars[i] = c

DigitValue(c) == CHOOSE d \in 0..9 : DigitChars[d + 1] = c

\* The character of s at position p, or "" past either end.
CharAt(s, p) == IF p >= 1 /\ p <= Len(s) THEN s[p] ELSE ""

\* s continues with the literal lit at position p.
LitAt(s, p, lit) ==
    /\ p >= 1
    /\ p + Len(lit) - 1 <= Len(s)
    /\ SubSeq(s, p, p + Len(lit) - 1) = lit

RECURSIVE DigitRun(_, _)
\* \d+ at position p: the number of digits from p on.
DigitRun(s, p) == IF IsDigit(CharAt(s, p)) THEN 1 + DigitRun(s, p + 1) ELSE 0

RECURSIVE LetterRun(_, _)
\* [a-z]+ at position p.
LetterRun(s, p) == IF IsLowerLetter(CharAt(s, p)) THEN 1 + LetterRun(s, p + 1) ELSE 0

RECURSIVE SpaceRun(_, _)
\* \s* at position p.
SpaceRun(s, p) == IF CharAt(s, p) \in Whitespace THEN 1 + SpaceRun(s, p + 1) ELSE 0

\* String.prototype.trim
Trim(s) ==
    LET keep == {i \in 1..Len(s) : s[i] \notin Whitespace}
    IN  IF keep = {} THEN <<>>
        ELSE SubSeq(s, CHOOSE i \in keep : \A j \in keep : i <= j,
                       CHOOSE i \in keep : \A j \in keep : i >= j)

\* String.prototype.toLowerCase
ToLowerCase(s) ==
    [i \in 1..Len(s) |->
        IF \E k \in 1..26 : UpperChars[k] = s[i]
        THEN LowerChars[CHOOSE k \in 1..26 : UpperChars[k] = s[i]]
        ELSE s[i]]

RECURSIVE NumberOf(_)
\* Number(digits) for a string of decimal digits.
NumberOf(ds) ==
    IF Len(ds) = 0 THEN 0
    ELSE 10 * NumberOf(SubSeq(ds, 1, Len(ds) - 1)) + DigitValue(ds[Len(ds)])

RECURSIVE NumberToString(_)
\* `${n}` for a non-negative integer n.
NumberToString(n) ==
    IF n < 10 THEN <<DigitChars[n + 1]>>
    ELSE NumberToString(n \div 10) \o <<DigitChars[(n % 10) + 1]>>

RECURSIVE Join(_, _)
\* Array.prototype.join
Join(list, sep) ==
    IF Len(list) = 0 THEN <<>>
    ELSE IF Len(list) = 1 THEN list[1]
    ELSE list[1] \o sep \o Join(Tail(list), sep)

(***************************************************************************)
(* parseTagFromName: /^(?:v)?(\d+)\.(\d+)\.(\d+)$/ on the trimmed name.    *)
(***************************************************************************)
\* A variant that no longer accepts the optional leading v.
ParseNoPrefix(tagName) ==
    LET s  == Trim(IF tagName = NoName THEN <<>> ELSE tagName)
        n1 == DigitRun(s, 1)
        p2 == 1 + n1 + 1
        n2 == DigitRun(s, p2)
        p3 == p2 + n2 + 1
        n3 == DigitRun(s, p3)
    IN  IF /\ n1 >= 1 /\ CharAt(s, 1 + n1) = "."
           /\ n2 >= 1 /\ CharAt(s, p2 + n2) = "."
           /\ n3 >= 1 /\ p3 + n3 = Len(s) + 1
        THEN <<NumberOf(SubSeq(s, 1, n1)),
               NumberOf(SubSeq(s, p2, p2 + n2 - 1)),
               NumberOf(SubSeq(s, p3, p3 + n3 - 1))>>
        ELSE Null

\* A variant whose pattern lost the closing $ anchor.
ParseUnanchored(tagName) ==
    LET s  == Trim(IF tagName = NoName THEN <<>> ELSE tagName)
        p1 == IF CharAt(s, 1) = "v" THEN 2 ELSE 1
        n1 == DigitRun(s, p1)
        p2 == p1 + n1 + 1
        n2 == DigitRun(s, p2)
        p3 == p2 + n2 + 1
        n3 == DigitRun(s, p3)
    IN  IF /\ n1 >= 1 /\ CharAt(s, p1 + n1) = "."
           /\ n2 >= 1 /\ CharAt(s, p2 + n2) = "."
           /\ n3 >= 1
        THEN <<NumberOf(SubSeq(s, p1, p1 + n1 - 1)),
               NumberOf(SubSeq(s, p2, p2 + n2 - 1)),
               NumberOf(SubSeq(s, p3, p3 + n3 - 1))>>
        ELSE Null

parseTagFromName(tagName) ==
    LET s  == Trim(IF tagName = NoName THEN <<>> ELSE tagName)
        p1 == IF CharAt(s, 1) = "v" THEN 2 ELSE 1
        n1 == DigitRun(s, p1)
        p2 == p1 + n1 + 1
        n2 == DigitRun(s, p2)
        p3 == p2 + n2 + 1
        n3 == DigitRun(s, p3)
    IN  IF /\ n1 >= 1 /\ CharAt(s, p1 + n1) = "."
           /\ n2 >= 1 /\ CharAt(s, p2 + n2) = "."
           /\ n3 >= 1 /\ p3 + n3 = Len(s) + 1
        THEN <<NumberOf(SubSeq(s, p1, p1 + n1 - 1)),
               NumberOf(SubSeq(s, p2, p2 + n2 - 1)),
               NumberOf(SubSeq(s, p3, p3 + n3 - 1))>>
        ELSE Null

(***************************************************************************)
(* compareTags: the loop over i = 0, 1, 2.                                 *)
(***************************************************************************)
RECURSIVE CompareFrom(_, _, _)
CompareFrom(tag, tagOther, i) ==
    IF i > 3 THEN 0
    ELSE IF tag[i] > tagOther[i] THEN 1
    ELSE IF tag[i] < tagOther[i] THEN -1
    ELSE CompareFrom(tag, tagOther, i + 1)

\* A variant whose loop stops after the minor component.
CompareTwoComponents(tag, tagOther) ==
    IF tag[1] > tagOther[1] THEN 1
    ELSE IF tag[1] < tagOther[1] THEN -1
    ELSE IF tag[2] > tagOther[2] THEN 1
    ELSE IF tag[2] < tagOther[2] THEN -1
    ELSE 0

compareTags(tag, tagOther) == CompareFrom(tag, tagOther, 1)

(***************************************************************************)
(* detectVersionIncrease.                                                  *)
(***************************************************************************)
BreakingChangeLit ==
    <<"b", "r", "e", "a", "k", "i", "n", "g", " ", "c", "h", "a", "n", "g", "e">>

BreakingChangeUpper ==
    <<"B", "R", "E", "A", "K", "I", "N", "G", " ", "C", "H", "A", "N", "G", "E">>

\* text.split(/\r?\n/, 1)[0]
Header(text) ==
    LET nl == {i \in 1..Len(text) : text[i] = "\n"}
    IN  IF nl = {} THEN text
        ELSE LET q == CHOOSE i \in nl : \A j \in nl : i <= j
             IN  IF CharAt(text, q - 1) = "\r" THEN SubSeq(text, 1, q - 2)
                 ELSE SubSeq(text, 1, q - 1)

\* (?:\([^)]+\))? at position p: the position after the optional scope, or 0
\* when an opening parenthesis at p is not the start of a non-empty scope.
AfterScope(h, p) ==
    IF CharAt(h, p) # "(" THEN p
    ELSE LET close == {i \in (p + 1)..Len(h) : h[i] = ")"}
         IN  IF close = {} THEN 0
             ELSE LET q == CHOOSE i \in close : \A j \in close : i <= j
                  IN  IF q > p + 1 THEN q + 1 ELSE 0

\* /^[a-z]+(?:\([^)]+\))?!:\s/i
breackingChangeInHead(header) ==
    LET n == LetterRun(header, 1)
        p == AfterScope(header, n + 1)
    IN  /\ n >= 1
        /\ p > 0
        /\ CharAt(header, p) = "!"
        /\ CharAt(header, p + 1) = ":"
        /\ CharAt(header, p + 2) \in Whitespace

\* /^<type>(?:\([^)]+\))?:\s/i for a literal type
TypeExp(type, header) ==
    LET p == AfterScope(header, Len(type) + 1)
    IN  /\ LitAt(header, 1, type)
        /\ p > 0
        /\ CharAt(header, p) = ":"
        /\ CharAt(header, p + 1) \in Whitespace

featExp(header) == TypeExp(<<"f", "e", "a", "t">>, header)

fixExp(header) == TypeExp(<<"f", "i", "x">>, header)

\* /^\s*breaking changes?:?/mi
breakingChangeInText(text) ==
    \E p \in 1..(Len(text) + 1) :
        /\ p = 1 \/ text[p - 1] \in LineTerminators
        /\ LitAt(text, p + SpaceRun(text, p), BreakingChangeLit)

\* A variant that tests the minor rule before the major rule.
DetectMinorFirst(text) ==
    LET commitLowerCase == ToLowerCase(text)
        header == Header(commitLowerCase)
    IN  IF featExp(header) THEN "minor"
        ELSE IF breackingChangeInHead(header) \/ breakingChangeInText(commitLowerCase)
        THEN "major"
        ELSE IF fixExp(header) THEN "patch"
        ELSE NullBump

\* A variant that looks for the footer on the header line only.
DetectFooterInHeader(text) ==
    LET commitLowerCase == ToLowerCase(text)
        header == Header(commitLowerCase)
    IN  IF breackingChangeInHead(header) \/ breakingChangeInText(header)
        THEN "major"
        ELSE IF featExp(header) THEN "minor"
        ELSE IF fixExp(header) THEN "patch"
        ELSE NullBump

\* A variant whose feat/fix rules accept the type without the colon.
DetectNoColon(text) ==
    LET commitLowerCase == ToLowerCase(text)
        header == Header(commitLowerCase)
    IN  IF breackingChangeInHead(header) \/ breakingChangeInText(commitLowerCase)
        THEN "major"
        ELSE IF LitAt(header, 1, <<"f", "e", "a", "t">>) THEN "minor"
        ELSE IF LitAt(header, 1, <<"f", "i", "x">>) THEN "patch"
        ELSE NullBump

detectVersionIncrease(text) ==
    LET commitLowerCase == ToLowerCase(text)
        header == Header(commitLowerCase)
    IN  IF breackingChangeInHead(header) \/ breakingChangeInText(commitLowerCase)
        THEN "major"
        ELSE IF featExp(header) THEN "minor"
        ELSE IF fixExp(header) THEN "patch"
        ELSE NullBump

(***************************************************************************)
(* nextTag and formatTagToString.                                          *)
(***************************************************************************)
\* A variant that raises a component without zeroing the lower ones.
NextKeepsLower(major, minor, patch, versionToIncrease) ==
    IF versionToIncrease = "major" THEN <<major + 1, minor, patch>>
    ELSE IF versionToIncrease = "minor" THEN <<major, minor + 1, patch>>
    ELSE <<major, minor, patch + 1>>

nextTag(major, minor, patch, versionToIncrease) ==
    IF versionToIncrease = "major" THEN <<major + 1, 0, 0>>
    ELSE IF versionToIncrease = "minor" THEN <<major, minor + 1, 0>>
    ELSE <<major, minor, patch + 1>>

\* A variant that separates the components with a single dot less.
FormatNoPatchDot(major, minor, patch, vPrefix) ==
    (IF vPrefix THEN <<"v">> ELSE <<>>)
        \o NumberToString(major) \o <<".">> \o NumberToString(minor)
        \o NumberToString(patch)

\* A variant that writes the v whatever vPrefix is.
FormatAlwaysPrefixed(major, minor, patch, vPrefix) ==
    <<"v">>
        \o NumberToString(major) \o <<".">> \o NumberToString(minor)
        \o <<".">> \o NumberToString(patch)

formatTagToString(major, minor, patch, vPrefix) ==
    (IF vPrefix THEN <<"v">> ELSE <<>>)
        \o NumberToString(major) \o <<".">> \o NumberToString(minor)
        \o <<".">> \o NumberToString(patch)

(***************************************************************************)
(* The state of a run that has not been started: the helper specifications *)
(* below leave it untouched.                                               *)
(***************************************************************************)
NoSha == ""

IdleInputs ==
    [vPrefix |-> FALSE, createRelease |-> FALSE, markLatest |-> FALSE,
     generateNotes |-> FALSE, commentPr |-> FALSE]

IdlePr == [present |-> FALSE, merged |-> FALSE, sha |-> NoSha]

IdleHost ==
    [commits |-> <<>>, mergeMessage |-> <<>>, tags |-> <<>>, releases |-> {},
     comments |-> <<>>, tokenUserType |-> "Bot", raced |-> FALSE]

IdleRun ==
    [pc |-> "idle", commitMessages |-> <<>>, versionToIncrease |-> Unset,
     allTags |-> <<>>, latestName |-> Null, latestParsed |-> Null, newTag |-> Null,
     tagAsString |-> Null, tagExists |-> FALSE, body |-> Null, existing |-> 0,
     nextTagCalls |-> 0]

Idle ==
    /\ inputs = IdleInputs
    /\ pr = IdlePr
    /\ host = IdleHost
    /\ run = IdleRun
    /\ calls = <<>>
    /\ report = [failed |-> 0, warnings |-> 0]

NoPure == [op |-> "none", arg |-> Null, done |-> TRUE, out |-> Null]

(***************************************************************************)
(* Inputs drawn for the helpers.                                           *)
(***************************************************************************)
Components == 0..MaxComponent

CmpVersions == (0..MaxCmp) \X (0..MaxCmp) \X (0..MaxCmp)

NameLeads == {<<>>, <<"v">>, <<"V">>, <<" ", "v">>, <<"v", "v">>}

NameSegments == {<<>>, <<"0">>, <<"1", "2">>, <<"x">>, <<"0", "7">>}

NameSuffixes == {<<>>, <<"-", "b", "e", "t", "a">>, <<" ">>, <<"\n">>}

RECURSIVE Dotted(_)
\* The strings of n segments separated by dots.
Dotted(n) ==
    IF n = 1 THEN NameSegments
    ELSE {d \o <<".">> \o g : d \in Dotted(n - 1), g \in NameSegments}

TagNameInputs ==
    {NoName, <<"s", "o", "m", "e", "t", "h", "i", "n", "g">>}
        \cup {l \o d \o x : l \in NameLeads,
                            d \in UNION {Dotted(n) : n \in 1..MaxSegments},
                            x \in NameSuffixes}

TextLeads == {<<>>, <<" ">>, <<"a", " ">>}

TextTypes == {<<"f", "e", "a", "t">>, <<"f", "i", "x">>, <<"d", "o", "c", "s">>,
              <<"F", "E", "A", "T">>}

TextScopes == {<<>>, <<"(", "a", "p", "i", ")">>, <<"(", ")">>}

TextBangs == {<<>>, <<"!">>}

TextSeparators == {<<":", " ">>, <<":">>, <<" ">>, <<":", "\t">>}

TextDescriptions == {<<>>, <<"x">>}

TextTails ==
    {<<>>,
     <<"\n">>,
     <<"\n", "B", "R", "E", "A", "K", "I", "N", "G", " ", "C", "H", "A", "N", "G", "E", ":", " ", "y">>,
     <<"\n", " ", " ", "b", "r", "e", "a", "k", "i", "n", "g", " ", "c", "h", "a", "n", "g", "e", "s">>,
     <<" ", "B", "R", "E", "A", "K", "I", "N", "G", " ", "C", "H", "A", "N", "G", "E">>,
     <<"\r", "\n", "B", "r", "e", "a", "k", "i", "n", "g", " ", "C", "h", "a", "n", "g", "e">>,
     <<"\n", "f", "i", "x", ":", " ", "z">>,
     <<"\r", "b", "r", "e", "a", "k", "i", "n", "g", " ", "c", "h", "a", "n", "g", "e">>,
     <<"\n", "s", "e", "e", " ", "b", "r", "e", "a", "k", "i", "n", "g", " ", "c", "h", "a", "n", "g", "e">>}

\* Texts of the repository's tests and of the specification's examples.
SomethingBreakingChange ==
    <<"s", "o", "m", "e", "t", "h", "i", "n", "g", " ",
      "B", "R", "E", "A", "K", "I", "N", "G", " ", "C", "H", "A", "N", "G", "E">>

FeatSomething ==
    <<"f", "e", "a", "t", " ", "s", "o", "m", "e", "t", "h", "i", "n", "g">>

ExampleTexts ==
    {SomethingBreakingChange,
     FeatSomething,
     <<"s", "o", "m", "e", "t", "h", "i", "n", "g">>,
     <<"d", "o", "c", "s", ":", " ", "s", "o", "m", "e", "t", "h", "i", "n", "g">>,
     <<"F", "I", "X", "(", "J", "I", "R", "A", "-", "1", "2", "3", ")", ":", " ",
       "c", "h", "a", "n", "g", "e", "s">>,
     <<"f", "e", "a", "t", "(", "J", "I", "R", "A", "-", "1", "2", "3", ")", "!", ":", " ",
       "t", "e", "s", "t">>,
     <<"f", "i", "x", ":", " ", "t", "e", "s", "t", "\n",
       "B", "r", "e", "a", "k", "i", "n", "g", " ", "c", "h", "a", "n", "g", "e", "s", "\n",
       "S", "o", "m", "e", "t", "h", "i", "n", "g", " ", "e", "l", "s", "e">>,
     <<"M", "A", "J", "O", "R", "!", ":", " ",
       "b", "r", "e", "a", "k", "i", "n", "g", " ", "c", "h", "a", "n", "g", "e">>}

TextInputs ==
    ExampleTexts
        \cup {l \o t \o s \o b \o c \o d \o x :
                l \in TextLeads, t \in TextTypes, s \in TextScopes, b \in TextBangs,
                c \in TextSeparators, d \in TextDescriptions, x \in TextTails}

(***************************************************************************)
(* The helpers applied to drawn inputs, one specification per helper.      *)
(***************************************************************************)
InitParse ==
    /\ \E name \in TagNameInputs :
            pure = [op |-> "parse", arg |-> name, done |-> FALSE, out |-> Null]
    /\ Idle

ApplyParse ==
    /\ pure.op = "parse" /\ ~pure.done
    /\ pure' = [pure EXCEPT !.done = TRUE, !.out = parseTagFromName(pure.arg)]
    /\ UNCHANGED <<inputs, pr, host, run, calls, report>>

SpecParse == InitParse /\ [][ApplyParse]_vars

InitRoundTrip ==
    /\ \E a \in Components, b \in Components, c \in Components, v \in BOOLEAN :
            pure = [op |-> "roundtrip",
                    arg |-> [version |-> <<a, b, c>>, vPrefix |-> v],
                    done |-> FALSE, out |-> Null]
    /\ Idle

ApplyRoundTrip ==
    /\ pure.op = "roundtrip" /\ ~pure.done
    /\ LET v == pure.arg.version
           name == formatTagToString(v[1], v[2], v[3], pure.arg.vPrefix)
       IN  pure' = [pure EXCEPT !.done = TRUE, !.out = parseTagFromName(name)]
    /\ UNCHANGED <<inputs, pr, host, run, calls, report>>

SpecRoundTrip == InitRoundTrip /\ [][ApplyRoundTrip]_vars

InitCompare ==
    /\ \E a \in CmpVersions, b \in CmpVersions, c \in CmpVersions :
            pure = [op |-> "compare", arg |-> [a |-> a, b |-> b, c |-> c],
                    done |-> FALSE, out |-> Null]
    /\ Idle

ApplyCompare ==
    /\ pure.op = "compare" /\ ~pure.done
    /\ LET a == pure.arg.a
           b == pure.arg.b
           c == pure.arg.c
       IN  pure' = [pure EXCEPT !.done = TRUE,
                                !.out = [aa |-> compareTags(a, a),
                                         ab |-> compareTags(a, b),
                                         ba |-> compareTags(b, a),
                                         bc |-> compareTags(b, c),
                                         ac |-> compareTags(a, c)]]
    /\ UNCHANGED <<inputs, pr, host, run, calls, report>>

SpecCompare == InitCompare /\ [][ApplyCompare]_vars

InitDetect ==
    /\ \E text \in TextInputs :
            pure = [op |-> "detect", arg |-> text, done |-> FALSE, out |-> NullBump]
    /\ Idle

ApplyDetect ==
    /\ pure.op = "detect" /\ ~pure.done
    /\ pure' = [pure EXCEPT !.done = TRUE, !.out = detectVersionIncrease(pure.arg)]
    /\ UNCHANGED <<inputs, pr, host, run, calls, report>>

SpecDetect == InitDetect /\ [][ApplyDetect]_vars

(***************************************************************************)
(* Properties of the helpers.                                              *)
(***************************************************************************)
\* s contains lit as a substring.
Contains(s, lit) == \E p \in 1..(Len(s) + 1) : LitAt(s, p, lit)

\* The lines of a text: the pieces between line terminators.
RECURSIVE Lines(_)
Lines(text) ==
    LET nl == {i \in 1..Len(text) : text[i] \in LineTerminators}
    IN  IF nl = {} THEN <<text>>
        ELSE LET q == CHOOSE i \in nl : \A j \in nl : i <= j
             IN  <<SubSeq(text, 1, q - 1)>> \o Lines(SubSeq(text, q + 1, Len(text)))

\* The header of `text` is `type`, an optional non-empty parenthesised scope,
\* `mark`, and a whitespace character, from its very first character on.
ConventionalHeader(text, type, mark) ==
    LET h == Header(ToLowerCase(text))
        t == Len(type)
        m == Len(mark)
    IN  /\ LitAt(h, 1, type)
        /\ \E p \in (t + 1)..Len(h) :
              /\ LitAt(h, p, mark)
              /\ CharAt(h, p + m) \in Whitespace
              /\ \/ p = t + 1
                 \/ /\ h[t + 1] = "("
                    /\ h[p - 1] = ")"
                    /\ p - 1 > t + 2
                    /\ \A i \in (t + 2)..(p - 2) : h[i] # ")"

\* The header of `text` is some alphabetic type, an optional scope and `!: `.
BangHeader(text) ==
    LET h == Header(ToLowerCase(text))
    IN  \E t \in 1..Len(h) :
            /\ \A i \in 1..t : IsLowerLetter(h[i])
            /\ ConventionalHeader(text, SubSeq(h, 1, t), <<"!", ":">>)

\* Some line of `text` from line `from` on begins, after optional whitespace,
\* with "breaking change" in any letter case.
BreakingLineFrom(text, from) ==
    LET ls == Lines(ToLowerCase(text))
    IN  \E k \in from..Len(ls) :
            LitAt(ls[k], 1 + SpaceRun(ls[k], 1), BreakingChangeLit)

\* The bump one text indicates by the documented rules, strongest first.
MajorRule(text) == BangHeader(text) \/ BreakingLineFrom(text, 1)

MinorRule(text) == ConventionalHeader(text, <<"f", "e", "a", "t">>, <<":">>)

PatchRule(text) == ConventionalHeader(text, <<"f", "i", "x">>, <<":">>)

DetectDone == pure.op = "detect" /\ pure.done

\* C5: a commit message that contains the phrase BREAKING CHANGE anywhere in
\* its text, also in the middle of a line, is classified as a major bump.
C5_BreakingChangeAnywhere ==
    (DetectDone /\ Contains(pure.arg, BreakingChangeUpper)) => pure.out = "major"

\* C6: detectVersionIncrease applies strict precedence major > minor > patch >
\* none: a text that satisfies the rule of a higher kind gets that kind even
\* if it satisfies a lower rule too, and none is returned only when no rule
\* matches.
C6_StrictPrecedence ==
    DetectDone =>
        /\ MajorRule(pure.arg) => pure.out = "major"
        /\ (~MajorRule(pure.arg) /\ MinorRule(pure.arg)) => pure.out = "minor"
        /\ (~MajorRule(pure.arg) /\ ~MinorRule(pure.arg) /\ PatchRule(pure.arg))
              => pure.out = "patch"
        /\ pure.out = NullBump
              <=> ~(MajorRule(pure.arg) \/ MinorRule(pure.arg) \/ PatchRule(pure.arg))

\* C6 witness: a feat header together with a breaking-change footer is major.
C6_Witness ==
    /\ DetectDone
    /\ MinorRule(pure.arg)
    /\ BreakingLineFrom(pure.arg, 2)
    /\ pure.out = "major"

C8_RoundTrip ==
    (pure.op = "roundtrip" /\ pure.done) => pure.out = pure.arg.version

\* C8 witness: a v-prefixed version with two-digit components went round.
C8_Witness ==
    /\ pure.op = "roundtrip" /\ pure.done
    /\ pure.arg.vPrefix
    /\ pure.arg.version = <<10, 0, 11>>
    /\ pure.out = <<10, 0, 11>>

\* The name is an optional v and exactly three dot-separated runs of digits.
IsVersionName(name) ==
    LET u == IF CharAt(name, 1) = "v" THEN SubSeq(name, 2, Len(name)) ELSE name
        AllDigits(d) == Len(d) >= 1 /\ \A i \in 1..Len(d) : IsDigit(d[i])
    IN  \E i \in 1..Len(u), j \in 1..Len(u) :
            /\ i < j
            /\ u[i] = "." /\ u[j] = "."
            /\ AllDigits(SubSeq(u, 1, i - 1))
            /\ AllDigits(SubSeq(u, i + 1, j - 1))
            /\ AllDigits(SubSeq(u, j + 1, Len(u)))

\* The triple a version name denotes.
VersionOfName(name) ==
    LET u == IF CharAt(name, 1) = "v" THEN SubSeq(name, 2, Len(name)) ELSE name
        dots == {i \in 1..Len(u) : u[i] = "."}
        i == CHOOSE d \in dots : \A e \in dots : d <= e
        j == CHOOSE d \in dots : \A e \in dots : d >= e
    IN  <<NumberOf(SubSeq(u, 1, i - 1)), NumberOf(SubSeq(u, i + 1, j - 1)),
          NumberOf(SubSeq(u, j + 1, Len(u)))>>

\* C9: parseTagFromName returns the triple exactly for the names that, once
\* trimmed, are an optional v and three dot-separated decimal integers; every
\* other name, also a missing one, yields null.
C9_ParseExactly ==
    (pure.op = "parse" /\ pure.done) =>
        LET name == Trim(IF pure.arg = NoName THEN <<>> ELSE pure.arg)
        IN  IF IsVersionName(name) THEN pure.out = VersionOfName(name)
            ELSE pure.out = Null

\* C9 witness: a name with a suffix after three numeric segments is rejected.
C9_Witness ==
    /\ pure.op = "parse" /\ pure.done
    /\ pure.arg = <<"v", "1", "2", ".", "0", ".", "0", "7", "-", "b", "e", "t", "a">>
    /\ pure.out = Null

\* The sign of the first differing component, 0 when there is none.
Lexicographic(a, b) ==
    IF a = b THEN 0
    ELSE LET i == CHOOSE k \in 1..3 : a[k] # b[k] /\ \A m \in 1..(k - 1) : a[m] = b[m]
         IN  IF a[i] > b[i] THEN 1 ELSE -1

\* C10: compareTags is a total order on version triples, lexicographic by
\* (major, minor, patch): reflexive, zero only on equal triples, antisymmetric,
\* transitive, and always one of -1, 0, 1.
C10_TotalOrder ==
    (pure.op = "compare" /\ pure.done) =>
        /\ pure.out.aa = 0
        /\ pure.out.ab \in {-1, 0, 1}
        /\ pure.out.ab = 0 => pure.arg.a = pure.arg.b
        /\ pure.out.ab = -pure.out.ba
        /\ (pure.out.ab = 1 /\ pure.out.bc = 1) => pure.out.ac = 1
        /\ pure.out.ab = Lexicographic(pure.arg.a, pure.arg.b)

\* C10 witness: a chain a > b > c decided on different components.
C10_Witness ==
    /\ pure.op = "compare" /\ pure.done
    /\ pure.arg.a = <<1, 0, 0>> /\ pure.arg.b = <<0, 2, 1>> /\ pure.arg.c = <<0, 2, 0>>
    /\ pure.out.ab = 1 /\ pure.out.bc = 1 /\ pure.out.ac = 1

(***************************************************************************)
(* The repository host, as run sees it through octokit.                    *)
(***************************************************************************)
RefsTagsPrefix == <<"r", "e", "f", "s", "/", "t", "a", "g", "s", "/">>

TagsPrefix == <<"t", "a", "g", "s", "/">>

MarkerStart == "<!-- release-tag-commit-bot:start -->"

MarkerEnd == "<!-- release-tag-commit-bot:end -->"

MergeSha == "abc123"

OtherSha == "def456"

\* The names of the tags the host holds, in the order it lists them.
HostTagNames == [i \in 1..Len(host.tags) |-> host.tags[i].name]

\* git.getRef / git.createRef resolve a ref to the tag of that name.
HostHasTag(name) == \E i \in 1..Len(host.tags) : host.tags[i].name = name

\* The tag a ref path names, after the given prefix.
TagOfRef(ref, prefix) ==
    IF LitAt(ref, 1, prefix) THEN SubSeq(ref, Len(prefix) + 1, Len(ref)) ELSE Null

(***************************************************************************)
(* run: the orchestration.  Each action is the arrival of the answer to    *)
(* one awaited host call together with the code up to the next await.      *)
(***************************************************************************)
Call(api, arg, ok) == [api |-> api, arg |-> arg, ok |-> ok]

\* core.setFailed followed by the end of run.
SetFailed(r) ==
    /\ run' = [r EXCEPT !.pc = "done"]
    /\ report' = [report EXCEPT !.failed = @ + 1]

NoBumpBody == <<"No bump detected.">>

NextTagBody(tagAsString, versionToIncrease, vPrefix, isMerged) ==
    <<"Next tag: ">> \o tagAsString
        \o <<"Reason: ", versionToIncrease, "Prefix v: ",
             IF vPrefix THEN "on" ELSE "off",
             IF isMerged THEN "Status: PR is merged" ELSE "Status: Preview only">>

\* wrapped = `${markerStart}\n${body}\n${markerEnd}`
Wrapped(body) == <<MarkerStart, "\n">> \o body \o <<"\n", MarkerEnd>>

\* c.body.includes(markerStart)
Includes(body, marker) == \E i \in 1..Len(body) : body[i] = marker

\* A variant in which no match silently becomes a patch bump.
ClassifyDefaultPatch(commitMessages) ==
    LET v == detectVersionIncrease(Join(commitMessages, <<",">>))
    IN  IF v = NullBump THEN "patch" ELSE v

\* index.ts 124: detectVersionIncrease(commitMessages.join(","))
ClassifyCorpus(commitMessages) == detectVersionIncrease(Join(commitMessages, <<",">>))

\* A variant that comments on a missing bump whatever comment_pr is.
ClassifiedAlwaysComments(r, commitMessages) ==
    LET v == ClassifyCorpus(commitMessages)
    IN  [r EXCEPT !.commitMessages = commitMessages,
                  !.versionToIncrease = v,
                  !.body = IF v = NullBump THEN NoBumpBody ELSE @,
                  !.pc = IF v # NullBump THEN "listTags" ELSE "listComments"]

\* index.ts 123-132: classification, and where run goes from there.
Classified(r, commitMessages) ==
    LET v == ClassifyCorpus(commitMessages)
    IN  [r EXCEPT !.commitMessages = commitMessages,
                  !.versionToIncrease = v,
                  !.body = IF v = NullBump /\ inputs.commentPr THEN NoBumpBody ELSE @,
                  !.pc = IF v # NullBump THEN "listTags"
                         ELSE IF inputs.commentPr THEN "listComments"
                         ELSE "done"]

\* index.ts 139-144: the parseable tags, each with its parsed version.
RECURSIVE ParsedTags(_)
ParsedTags(names) ==
    IF Len(names) = 0 THEN <<>>
    ELSE LET p == parseTagFromName(Head(names))
         IN  (IF p = Null THEN <<>> ELSE <<[name |-> Head(names), parsed |-> p]>>)
                 \o ParsedTags(Tail(names))

\* A variant whose comparator has its arguments the other way round, which
\* sorts ascending.
RECURSIVE InsertAscending(_, _)
InsertAscending(sorted, x) ==
    IF Len(sorted) = 0 THEN <<x>>
    ELSE IF compareTags(Head(sorted).parsed, x.parsed) > 0 THEN <<x>> \o sorted
    ELSE <<Head(sorted)>> \o InsertAscending(Tail(sorted), x)

\* Array.prototype.sort with (a, b) => compareTags(b.parsed, a.parsed): stable.
RECURSIVE InsertSorted(_, _)
InsertSorted(sorted, x) ==
    IF Len(sorted) = 0 THEN <<x>>
    ELSE IF compareTags(Head(sorted).parsed, x.parsed) < 0 THEN <<x>> \o sorted
    ELSE <<Head(sorted)>> \o InsertSorted(Tail(sorted), x)

RECURSIVE SortDescending(_)
SortDescending(parsed) ==
    IF Len(parsed) = 0 THEN <<>>
    ELSE InsertSorted(SortDescending(SubSeq(parsed, 1, Len(parsed) - 1)),
                      parsed[Len(parsed)])

\* A variant whose baseline without parseable tags is 0.0.1.
LatestStartsAtOne(names, vPrefix) ==
    LET parsed == ParsedTags(names)
    IN  IF Len(parsed) = 0
        THEN [name |-> formatTagToString(0, 0, 1, vPrefix), parsed |-> <<0, 0, 1>>]
        ELSE SortDescending(parsed)[1]

\* A variant that takes the first listed parseable tag as the latest.
LatestFirstListed(names, vPrefix) ==
    LET parsed == ParsedTags(names)
    IN  IF Len(parsed) = 0
        THEN [name |-> formatTagToString(0, 0, 0, vPrefix), parsed |-> <<0, 0, 0>>]
        ELSE parsed[1]

\* index.ts 146-157: the latest tag, or the 0.0.0 baseline.
LatestTag(names, vPrefix) ==
    LET parsed == ParsedTags(names)
    IN  IF Len(parsed) = 0
        THEN [name |-> formatTagToString(0, 0, 0, vPrefix), parsed |-> <<0, 0, 0>>]
        ELSE SortDescending(parsed)[1]

\* A variant that goes on to the tag step for a preview too.
AfterCommentAlwaysTags(r) ==
    [r EXCEPT !.pc = IF r.versionToIncrease = NullBump THEN "done" ELSE "getRef"]

\* index.ts 176-180: after the comment step, a preview ends the run.
AfterComment(r) ==
    [r EXCEPT !.pc = IF r.versionToIncrease = NullBump \/ ~pr.merged THEN "done"
                     ELSE "getRef"]

\* A variant that goes on to the release step whatever create_release is.
AfterTagAlwaysReleases(r) == [r EXCEPT !.pc = "getReleaseByTag"]

\* index.ts 202-203: after the tag step.
AfterTag(r) ==
    [r EXCEPT !.pc = IF inputs.createRelease THEN "getReleaseByTag" ELSE "done"]

\* A variant without the check of the PR context.
StartWithoutContextCheck ==
    /\ run.pc = "start"
    /\ run' = [run EXCEPT !.pc = "listCommits"]
    /\ UNCHANGED <<pure, inputs, pr, host, calls, report>>

\* index.ts 87-105: the PR context check, up to the call of listCommits.
Start ==
    /\ run.pc = "start"
    /\ IF ~pr.present
       THEN SetFailed(run)
       ELSE /\ run' = [run EXCEPT !.pc = "listCommits"]
            /\ UNCHANGED report
    /\ UNCHANGED <<pure, inputs, pr, host, calls>>

\* index.ts 102-121 (and 123-132 for a PR that is not merged).
ListCommits ==
    /\ run.pc = "listCommits"
    /\ \E ok \in BOOLEAN :
          /\ calls' = Append(calls, Call("listCommits", Null, ok))
          /\ IF ~ok
             THEN SetFailed(run)
             ELSE IF pr.merged /\ pr.sha = NoSha
             THEN SetFailed([run EXCEPT !.commitMessages = host.commits])
             ELSE /\ run' = IF pr.merged
                            THEN [run EXCEPT !.commitMessages = host.commits,
                                             !.pc = "getCommit"]
                            ELSE Classified(run, host.commits)
                  /\ UNCHANGED report
    /\ UNCHANGED <<pure, inputs, pr, host>>

\* A variant without the try/catch around the read of the merge commit.
GetCommitUntolerated ==
    /\ run.pc = "getCommit"
    /\ \E ok \in BOOLEAN :
          /\ calls' = Append(calls, Call("getCommit", pr.sha, ok))
          /\ IF ok
             THEN /\ run' = Classified(run, <<host.mergeMessage>> \o run.commitMessages)
                  /\ UNCHANGED report
             ELSE SetFailed(run)
    /\ UNCHANGED <<pure, inputs, pr, host>>

\* index.ts 115-132: the merge commit message goes first; a failure to read
\* it is tolerated.
GetCommit ==
    /\ run.pc = "getCommit"
    /\ \E ok \in BOOLEAN :
          /\ calls' = Append(calls, Call("getCommit", pr.sha, ok))
          /\ run' = Classified(run, IF ok THEN <<host.mergeMessage>> \o run.commitMessages
                                    ELSE run.commitMessages)
    /\ UNCHANGED <<pure, inputs, pr, host, report>>

\* index.ts 135-174: the tag list, the latest tag, the next tag.
ListTags ==
    /\ run.pc = "listTags"
    /\ \E ok \in BOOLEAN :
          /\ calls' = Append(calls, Call("listTags", Null, ok))
          /\ IF ~ok
             THEN SetFailed(run)
             ELSE \E latest \in {LatestTag(HostTagNames, inputs.vPrefix)} :
                  \E newTag \in {nextTag(latest.parsed[1], latest.parsed[2],
                                         latest.parsed[3], run.versionToIncrease)} :
                  \E tagAsString \in {formatTagToString(newTag[1], newTag[2], newTag[3],
                                                        inputs.vPrefix)} :
                  \E r \in {[run EXCEPT !.allTags = HostTagNames,
                                        !.latestName = latest.name,
                                        !.latestParsed = latest.parsed,
                                        !.newTag = newTag,
                                        !.nextTagCalls = @ + 1,
                                        !.tagAsString = tagAsString]} :
                      /\ run' = IF inputs.commentPr
                                THEN [r EXCEPT !.pc = "listComments",
                                               !.body = NextTagBody(tagAsString,
                                                            run.versionToIncrease,
                                                            inputs.vPrefix, pr.merged)]
                                ELSE AfterComment(r)
                      /\ UNCHANGED report
    /\ UNCHANGED <<pure, inputs, pr, host>>

\* index.ts 67: per_page of the one listComments request.
PerPage == 100

\* index.ts 67: the comments the request returns, the first page of the
\* pull request's comments in the order of their creation.
ListedComments == SubSeq(host.comments, 1,
                         IF Len(host.comments) < PerPage THEN Len(host.comments)
                         ELSE PerPage)

\* A variant that takes any comment with the marker for its own, whoever
\* wrote it.
ListCommentsAnyAuthor ==
    /\ run.pc = "listComments"
    /\ \E ok \in BOOLEAN :
          /\ calls' = Append(calls, Call("listComments", Null, ok))
          /\ IF ~ok
             THEN SetFailed(run)
             ELSE LET mine == {i \in 1..Len(ListedComments) :
                                  Includes(ListedComments[i].body, MarkerStart)}
                  IN  /\ run' = IF mine = {}
                                THEN [run EXCEPT !.existing = 0, !.pc = "createComment"]
                                ELSE [run EXCEPT
                                        !.existing =
                                            ListedComments[CHOOSE i \in mine :
                                                \A j \in mine : i <= j].id,
                                        !.pc = "updateComment"]
                      /\ UNCHANGED report
    /\ UNCHANGED <<pure, inputs, pr, host>>

\* index.ts 67-70: upsertPrComment lists the comments and looks for its own.
ListComments ==
    /\ run.pc = "listComments"
    /\ \E ok \in BOOLEAN :
          /\ calls' = Append(calls, Call("listComments", Null, ok))
          /\ IF ~ok
             THEN SetFailed(run)
             ELSE LET mine == {i \in 1..Len(ListedComments) :
                                  /\ Includes(ListedComments[i].body, MarkerStart)
                                  /\ ListedComments[i].userType = "Bot"}
                  IN  /\ run' = IF mine = {}
                                THEN [run EXCEPT !.existing = 0, !.pc = "createComment"]
                                ELSE [run EXCEPT
                                        !.existing =
                                            ListedComments[CHOOSE i \in mine :
                                                \A j \in mine : i <= j].id,
                                        !.pc = "updateComment"]
                      /\ UNCHANGED report
    /\ UNCHANGED <<pure, inputs, pr, host>>

\* index.ts 71: the existing comment is rewritten.
UpdateComment ==
    /\ run.pc = "updateComment"
    /\ \E ok \in BOOLEAN :
          /\ calls' = Append(calls, Call("updateComment",
                                [comment_id |-> run.existing, body |-> Wrapped(run.body)],
                                ok))
          /\ IF ~ok
             THEN SetFailed(run) /\ UNCHANGED host
             ELSE /\ host' = [host EXCEPT !.comments =
                                [i \in 1..Len(@) |->
                                    IF @[i].id = run.existing
                                    THEN [@[i] EXCEPT !.body = Wrapped(run.body)]
                                    ELSE @[i]]]
                  /\ run' = AfterComment(run)
                  /\ UNCHANGED report
    /\ UNCHANGED <<pure, inputs, pr>>

\* index.ts 73: a new comment is created.
CreateComment ==
    /\ run.pc = "createComment"
    /\ \E ok \in BOOLEAN :
          /\ calls' = Append(calls, Call("createComment", [body |-> Wrapped(run.body)], ok))
          /\ IF ~ok
             THEN SetFailed(run) /\ UNCHANGED host
             ELSE /\ host' = [host EXCEPT !.comments =
                                Append(@, [id |-> Len(@) + 1,
                                           body |-> Wrapped(run.body),
                                           userType |-> host.tokenUserType])]
                  /\ run' = AfterComment(run)
                  /\ UNCHANGED report
    /\ UNCHANGED <<pure, inputs, pr>>

\* A variant that goes on to create the ref whatever getRef answered.
GetRefIgnored ==
    /\ run.pc = "getRef"
    /\ \E answered \in BOOLEAN :
          LET ref == TagsPrefix \o run.tagAsString
              ok == answered /\ HostHasTag(TagOfRef(ref, TagsPrefix))
          IN  /\ calls' = Append(calls, Call("getRef", ref, ok))
              /\ run' = [run EXCEPT !.tagExists = FALSE, !.pc = "createRef"]
    /\ UNCHANGED <<pure, inputs, pr, host, report>>

\* index.ts 182-190: the existence check; any failure of getRef counts as
\* "does not exist".
GetRef ==
    /\ run.pc = "getRef"
    /\ \E answered \in BOOLEAN :
          LET ref == TagsPrefix \o run.tagAsString
              ok == answered /\ HostHasTag(TagOfRef(ref, TagsPrefix))
          IN  /\ calls' = Append(calls, Call("getRef", ref, ok))
              /\ run' = IF ok THEN AfterTag([run EXCEPT !.tagExists = TRUE])
                        ELSE [run EXCEPT !.tagExists = FALSE, !.pc = "createRef"]
    /\ UNCHANGED <<pure, inputs, pr, host, report>>

\* index.ts 192-200: the ref is created; the host rejects a duplicate.
CreateRef ==
    /\ run.pc = "createRef"
    /\ \E answered \in BOOLEAN :
          LET ref == RefsTagsPrefix \o run.tagAsString
              name == TagOfRef(ref, RefsTagsPrefix)
              ok == answered /\ ~HostHasTag(name)
          IN  /\ calls' = Append(calls, Call("createRef", [ref |-> ref, sha |-> pr.sha], ok))
              /\ IF ~ok
                 THEN SetFailed(run) /\ UNCHANGED host
                 ELSE /\ host' = [host EXCEPT !.tags =
                                    Append(@, [name |-> name, sha |-> pr.sha])]
                      /\ run' = AfterTag(run)
                      /\ UNCHANGED report
    /\ UNCHANGED <<pure, inputs, pr>>

\* index.ts 204-211: a failed lookup of the release counts as "no release".
GetReleaseByTag ==
    /\ run.pc = "getReleaseByTag"
    /\ \E answered \in BOOLEAN :
          LET ok == answered /\ run.tagAsString \in host.releases
          IN  /\ calls' = Append(calls, Call("getReleaseByTag", run.tagAsString, ok))
              /\ run' = [run EXCEPT !.pc = IF ok THEN "done" ELSE "createRelease"]
    /\ UNCHANGED <<pure, inputs, pr, host, report>>

\* A variant without the try/catch around the release step: a failure to
\* create the release reaches the outer catch.
CreateReleaseUncaught ==
    /\ run.pc = "createRelease"
    /\ \E answered \in BOOLEAN :
          LET ok == answered /\ run.tagAsString \notin host.releases
          IN  /\ calls' = Append(calls,
                    Call("createRelease",
                         [tag_name |-> run.tagAsString,
                          target_commitish |-> pr.sha,
                          name |-> run.tagAsString,
                          generate_release_notes |-> inputs.generateNotes,
                          make_latest |-> IF inputs.markLatest THEN "true" ELSE "false"],
                         ok))
              /\ host' = IF ok THEN [host EXCEPT !.releases = @ \cup {run.tagAsString}]
                         ELSE host
              /\ IF ok THEN run' = [run EXCEPT !.pc = "done"] /\ UNCHANGED report
                 ELSE SetFailed(run)
    /\ UNCHANGED <<pure, inputs, pr>>

\* index.ts 212-227: the release is created; a failure is only a warning.
CreateRelease ==
    /\ run.pc = "createRelease"
    /\ \E answered \in BOOLEAN :
          LET ok == answered /\ run.tagAsString \notin host.releases
          IN  /\ calls' = Append(calls,
                    Call("createRelease",
                         [tag_name |-> run.tagAsString,
                          target_commitish |-> pr.sha,
                          name |-> run.tagAsString,
                          generate_release_notes |-> inputs.generateNotes,
                          make_latest |-> IF inputs.markLatest THEN "true" ELSE "false"],
                         ok))
              /\ host' = IF ok THEN [host EXCEPT !.releases = @ \cup {run.tagAsString}]
                         ELSE host
              /\ report' = IF ok THEN report ELSE [report EXCEPT !.warnings = @ + 1]
              /\ run' = [run EXCEPT !.pc = "done"]
    /\ UNCHANGED <<pure, inputs, pr>>

\* Another actor (a concurrent run of the workflow, a user) creates the tag
\* this run has computed, inside the check-then-act window of index.ts
\* 182-200.
TagPushed ==
    /\ run.pc \in {"getRef", "createRef"}
    /\ ~host.raced
    /\ ~HostHasTag(run.tagAsString)
    /\ \E released \in BOOLEAN :
          host' = [host EXCEPT !.raced = TRUE,
                               !.tags = Append(@, [name |-> run.tagAsString,
                                                   sha |-> OtherSha]),
                               !.releases = IF released THEN @ \cup {run.tagAsString}
                                            ELSE @]
    /\ UNCHANGED <<pure, inputs, pr, run, calls, report>>

(***************************************************************************)
(* The inputs run is started with.                                         *)
(***************************************************************************)
FixBug == <<"f", "i", "x", ":", " ", "b", "u", "g">>

FeatX == <<"f", "e", "a", "t", ":", " ", "x">>

DocsX == <<"d", "o", "c", "s", ":", " ", "x">>

MajorBang ==
    <<"M", "A", "J", "O", "R", "!", ":", " ",
      "b", "r", "e", "a", "k", "i", "n", "g", " ", "c", "h", "a", "n", "g", "e">>

ChoreWithFooter ==
    <<"c", "h", "o", "r", "e", ":", " ", "c", "\n",
      "B", "r", "e", "a", "k", "i", "n", "g", " ", "c", "h", "a", "n", "g", "e", "s", ":", " ", "y">>

MergePR == <<"M", "e", "r", "g", "e", " ", "P", "R">>

FeatBangM == <<"f", "e", "a", "t", "!", ":", " ", "m">>

V123 == <<"v", "1", ".", "2", ".", "3">>

Plain1100 == <<"1", ".", "1", "0", ".", "0">>

V12 == <<"v", "1", ".", "2">>

\* One message per bump kind, none included.
BumpMessages == {FixBug, FeatX, MajorBang, DocsX}

CorpusMessages == BumpMessages \cup {ChoreWithFooter}

MergeMessages == {MergePR, FeatBangM}

TagNames == {V123, Plain1100, V12}

\* The sequences over S of length lo..hi.
SeqsOf(S, lo, hi) == UNION {[1..n -> S] : n \in lo..hi}

\* The tag lists of the host: distinct names, in any order.
TagLists ==
    {[i \in 1..Len(names) |-> [name |-> names[i], sha |-> OtherSha]] :
        names \in {q \in SeqsOf(TagNames, 0, MaxTags) :
                      \A i, j \in 1..Len(q) : i # j => q[i] # q[j]}}

UserMarkerComment ==
    [id |-> 1, body |-> Wrapped(<<"written by a user">>), userType |-> "User"]

BotMarkerComment == [id |-> 2, body |-> Wrapped(NoBumpBody), userType |-> "Bot"]

CommentLists == {<<>>, <<UserMarkerComment>>, <<UserMarkerComment, BotMarkerComment>>}

PrVariants ==
    {[present |-> FALSE, merged |-> FALSE, sha |-> NoSha],
     [present |-> TRUE, merged |-> FALSE, sha |-> NoSha],
     [present |-> TRUE, merged |-> TRUE, sha |-> NoSha],
     [present |-> TRUE, merged |-> TRUE, sha |-> MergeSha]}

InputValues ==
    [vPrefix : BOOLEAN, createRelease : BOOLEAN, markLatest : BOOLEAN,
     generateNotes : BOOLEAN, commentPr : BOOLEAN]

StartRun ==
    /\ pure = NoPure
    /\ run = [IdleRun EXCEPT !.pc = "start"]
    /\ calls = <<>>
    /\ report = [failed |-> 0, warnings |-> 0]

\* Every input and tag list, with a pull request of one commit whose merge
\* commit has either a merge message or, as after a squash, that commit's own.
Init ==
    /\ StartRun
    /\ inputs \in InputValues
    /\ pr \in PrVariants
    /\ \E m \in BumpMessages, tags \in TagLists, comments \in CommentLists :
       \E mergeMessage \in {MergePR, m} :
          host = [IdleHost EXCEPT !.commits = <<m>>, !.mergeMessage = mergeMessage,
                                  !.tags = tags, !.comments = comments]

\* Every commit list, against one tag list.
InitCorpus ==
    /\ StartRun
    /\ inputs \in {i \in InputValues : i.vPrefix /\ i.markLatest /\ i.generateNotes}
    /\ pr \in PrVariants
    /\ \E commits \in SeqsOf(CorpusMessages, 1, MaxCommits), m \in MergeMessages,
          comments \in {<<>>, <<UserMarkerComment, BotMarkerComment>>} :
          host = [IdleHost EXCEPT !.commits = commits, !.mergeMessage = m,
                                  !.tags = <<[name |-> V123, sha |-> OtherSha]>>,
                                  !.comments = comments]

Next ==
    \/ Start
    \/ ListCommits
    \/ GetCommit
    \/ ListTags
    \/ ListComments
    \/ UpdateComment
    \/ CreateComment
    \/ GetRef
    \/ CreateRef
    \/ GetReleaseByTag
    \/ CreateRelease
    \/ TagPushed

Spec == Init /\ [][Next]_vars

SpecCorpus == InitCorpus /\ [][Next]_vars

(***************************************************************************)
(* Properties of run.                                                      *)
(***************************************************************************)
\* The host calls run has made to the given API.
CallsTo(api) == {i \in 1..Len(calls) : calls[i].api = api}

\* The versions of the parseable names of a tag list.
ParseableVersions(names) ==
    {parseTagFromName(names[i]) : i \in 1..Len(names)} \ {Null}

\* The greatest version of a non-empty set, by (major, minor, patch).
Greatest(versions) ==
    CHOOSE v \in versions : \A w \in versions : Lexicographic(v, w) >= 0

\* The ref a merged run has to create from the tag list it read.
ExpectedTag ==
    LET baseline == Greatest(ParseableVersions(run.allTags))
        next == nextTag(baseline[1], baseline[2], baseline[3], run.versionToIncrease)
    IN  formatTagToString(next[1], next[2], next[3], inputs.vPrefix)

\* run has ended without failure, for a merged pull request with a bump and
\* parseable tags, after finding that the target tag does not exist.
CreatedCase ==
    /\ run.pc = "done"
    /\ report.failed = 0
    /\ pr.merged /\ pr.sha # NoSha
    /\ run.versionToIncrease \in {"major", "minor", "patch"}
    /\ ParseableVersions(run.allTags) # {}
    /\ ~run.tagExists

\* C1: for a merged pull request with a merge commit sha, a bump and a target
\* tag that does not exist yet, run creates exactly one ref, refs/tags/ followed
\* by format(next(baseline, bump), vPrefix) with baseline the greatest parseable
\* existing tag, pointing at the merge commit.
C1_CreatesNextTag ==
    CreatedCase =>
        /\ Cardinality(CallsTo("createRef")) = 1
        /\ \A i \in CallsTo("createRef") :
              /\ calls[i].ok
              /\ calls[i].arg = [ref |-> RefsTagsPrefix \o ExpectedTag, sha |-> pr.sha]
        /\ Len(host.tags) = Len(run.allTags) + 1
        /\ host.tags[Len(host.tags)] = [name |-> ExpectedTag, sha |-> pr.sha]

\* C1 witness: tags [v1.2.3] and corpus [fix: bug] created refs/tags/v1.2.4.
C1_Witness ==
    /\ run.pc = "done"
    /\ run.commitMessages = <<FixBug, FixBug>>
    /\ run.allTags = <<V123>>
    /\ \E i \in CallsTo("createRef") :
          /\ calls[i].ok
          /\ calls[i].arg = [ref |-> RefsTagsPrefix \o <<"v", "1", ".", "2", ".", "4">>,
                             sha |-> MergeSha]

\* run has classified its commit messages.
HasClassified == run.versionToIncrease # Unset

BumpRank(v) == IF v = "major" THEN 3 ELSE IF v = "minor" THEN 2
               ELSE IF v = "patch" THEN 1 ELSE 0

\* The highest bump any single commit message of the list indicates.
HighestSingleBump(commitMessages) ==
    LET each == {detectVersionIncrease(commitMessages[i]) : i \in 1..Len(commitMessages)}
    IN  IF each = {} THEN NullBump
        ELSE CHOOSE v \in each : \A w \in each : BumpRank(v) >= BumpRank(w)

\* C3: the bump run detects for a list of commit messages is the highest bump
\* any single message of the list indicates, at whatever position.
C3_HighestOfAnyCommit ==
    HasClassified => run.versionToIncrease = HighestSingleBump(run.commitMessages)

\* C4: a breaking-change footer, a line after the header beginning with
\* "breaking change(s)" in any letter case, in any commit message of the
\* corpus makes the bump major, whatever the headers are.
C4_FooterMakesMajor ==
    (/\ HasClassified
     /\ \E i \in 1..Len(run.commitMessages) : BreakingLineFrom(run.commitMessages[i], 2))
        => run.versionToIncrease = "major"

\* C4 witness: the footer is in the second commit, after a docs commit.
C4_Witness ==
    /\ HasClassified
    /\ run.commitMessages = <<DocsX, ChoreWithFooter>>
    /\ run.versionToIncrease = "major"

(***************************************************************************)
(* nextTag applied to drawn versions and bump values.                      *)
(***************************************************************************)
MaxNext == 3         \* version components drawn for nextTag

\* The bump values nextTag can be handed: the three bumps, and strings that
\* are none of them.
BumpValues == {"major", "minor", "patch", "Major", ""}

InitNext ==
    /\ \E a \in 0..MaxNext, b \in 0..MaxNext, c \in 0..MaxNext, v \in BumpValues :
            pure = [op |-> "next",
                    arg |-> [version |-> <<a, b, c>>, versionToIncrease |-> v],
                    done |-> FALSE, out |-> Null]
    /\ Idle

ApplyNext ==
    /\ pure.op = "next" /\ ~pure.done
    /\ LET v == pure.arg.version
       IN  pure' = [pure EXCEPT !.done = TRUE,
                                !.out = nextTag(v[1], v[2], v[3],
                                                pure.arg.versionToIncrease)]
    /\ UNCHANGED <<inputs, pr, host, run, calls, report>>

SpecNext == InitNext /\ [][ApplyNext]_vars

\* The component a bump value raises: 1 for major, 2 for minor, 3 otherwise.
RaisedComponent(versionToIncrease) ==
    IF versionToIncrease = "major" THEN 1
    ELSE IF versionToIncrease = "minor" THEN 2
    ELSE 3

\* C11: nextTag follows the SemVer increment rules for every current version:
\* the component the bump names (patch for any value that is neither major
\* nor minor) is raised by one, every lower component becomes zero and every
\* higher component is unchanged.
C11_SemVerIncrement ==
    (pure.op = "next" /\ pure.done) =>
        LET k == RaisedComponent(pure.arg.versionToIncrease)
        IN  /\ Len(pure.out) = 3
            /\ \A i \in 1..3 :
                  pure.out[i] = IF i < k THEN pure.arg.version[i]
                                ELSE IF i = k THEN pure.arg.version[i] + 1
                                ELSE 0

\* C11 witness: next(1, 2, 3, "minor") = (1, 3, 0).
C11_Witness ==
    /\ pure.op = "next" /\ pure.done
    /\ pure.arg = [version |-> <<1, 2, 3>>, versionToIncrease |-> "minor"]
    /\ pure.out = <<1, 3, 0>>

(***************************************************************************)
(* Properties of run: the baseline and the existing tag.                   *)
(***************************************************************************)
\* run has read the tag list and computed its next tag.
HasNextTag == run.tagAsString # Null

\* run reports a failure only after a host call that raised.
FailsOnlyOnRaisedCall ==
    report.failed > 0 => (Len(calls) > 0 /\ ~calls[Len(calls)].ok)

\* The v of a prefixed tag name.
PrefixOf(vPrefix) == IF vPrefix THEN <<"v">> ELSE <<>>

\* The first version after 0.0.0 for a bump, as a name without prefix.
FirstVersionName(versionToIncrease) ==
    IF versionToIncrease = "major" THEN <<"1", ".", "0", ".", "0">>
    ELSE IF versionToIncrease = "minor" THEN <<"0", ".", "1", ".", "0">>
    ELSE <<"0", ".", "0", ".", "1">>

C13_MaxBaseline ==
    (HasNextTag /\ ParseableVersions(run.allTags) # {}) =>
        /\ run.latestParsed = Greatest(ParseableVersions(run.allTags))
        /\ \E i \in 1..Len(run.allTags) :
              /\ run.allTags[i] = run.latestName
              /\ parseTagFromName(run.allTags[i]) = run.latestParsed
        /\ FailsOnlyOnRaisedCall

\* C13 witness: the greatest version, 1.10.0, is listed after v1.2.3.
C13_Witness ==
    /\ HasNextTag
    /\ run.allTags = <<V123, Plain1100>>
    /\ run.latestParsed = <<1, 10, 0>>
    /\ run.latestName = Plain1100

\* C14: when the ref of the computed tag exists on the host, run mutates
\* nothing: it calls neither createRef nor createRelease, whatever
\* create_release is, and reports no failure.
C14_ExistingTagIsNoOp ==
    run.tagExists =>
        /\ CallsTo("createRef") = {}
        /\ CallsTo("createRelease") = {}
        /\ report.failed = 0

(***************************************************************************)
(* The workflow run again for the same pull request: every invocation is   *)
(* a new process that starts run afresh against the host as it is now.     *)
(***************************************************************************)
MaxRuns == 2         \* invocations of run for the pull request

\* index.ts 234-237: the next invocation; nothing but the host carries over.
\* The log of host calls is kept across invocations.
Rerun ==
    /\ run.pc = "done"
    /\ Cardinality(CallsTo("listCommits")) < MaxRuns
    /\ run' = [IdleRun EXCEPT !.pc = "start"]
    /\ report' = [failed |-> 0, warnings |-> 0]
    /\ UNCHANGED <<pure, inputs, pr, host, calls>>

\* A merged pull request of one commit, fix: bug, squashed into its merge
\* commit, on a host whose only tag is v1.2.3.
InitRerun ==
    /\ StartRun
    /\ inputs \in {i \in InputValues : i.vPrefix /\ i.markLatest /\ i.generateNotes}
    /\ pr = [present |-> TRUE, merged |-> TRUE, sha |-> MergeSha]
    /\ \E comments \in {<<>>, <<UserMarkerComment, BotMarkerComment>>} :
          host = [IdleHost EXCEPT !.commits = <<FixBug>>, !.mergeMessage = FixBug,
                                  !.tags = <<[name |-> V123, sha |-> OtherSha]>>,
                                  !.comments = comments]

NextRerun ==
    \/ Next
    \/ Rerun

SpecRerun == InitRerun /\ [][NextRerun]_vars

\* C15: the tag decision is idempotent across invocations: over all the
\* invocations of run for the same merged pull request, at most one ref is
\* created; an invocation that follows one that created its tag finds the
\* decision acted upon and creates no further tag.
C15_RerunCreatesNoFurtherTag ==
    Cardinality({i \in CallsTo("createRef") : calls[i].ok}) <= 1

(***************************************************************************)
(* Properties of run: the race on the ref, the release, the preview and    *)
(* the preconditions.                                                      *)
(***************************************************************************)
\* C16: when the ref run has found absent is created by another actor before
\* run's own createRef, so that the host rejects that createRef as a
\* duplicate, run tolerates the rejection and does not report failure.
C16_DuplicateRefTolerated ==
    (/\ HostHasTag(run.tagAsString)
     /\ \E i \in CallsTo("createRef") : ~calls[i].ok)
        => report.failed = 0

\* The host holds the tag run created at the merge commit.
CreatedTagKept ==
    (\E i \in CallsTo("createRef") : calls[i].ok) =>
        \E k \in 1..Len(host.tags) :
            host.tags[k] = [name |-> run.tagAsString, sha |-> pr.sha]

\* C17: once run is past the tag step, a failure to look up or to create the
\* release never fails the run: a failed lookup counts as no release, a
\* failed creation is reported as one warning, run ends, and the tag it
\* created stays on the host.
C17_ReleaseFailureIsWarning ==
    (CallsTo("getReleaseByTag") # {}) =>
        /\ report.failed = 0
        /\ report.warnings = Cardinality({i \in CallsTo("createRelease") : ~calls[i].ok})
        /\ (\E i \in CallsTo("createRelease") : ~calls[i].ok) => run.pc = "done"
        /\ CreatedTagKept

\* C17 witness: the tag was created, then both the lookup and the creation
\* of the release failed.
C17_Witness ==
    /\ run.pc = "done"
    /\ \E i \in CallsTo("createRef") : calls[i].ok
    /\ \E i \in CallsTo("getReleaseByTag") : ~calls[i].ok
    /\ \E i \in CallsTo("createRelease") : ~calls[i].ok
    /\ run.tagAsString \notin host.releases
    /\ report = [failed |-> 0, warnings |-> 1]
    /\ HostHasTag(run.tagAsString)

\* C18: createRelease is called only when create_release is true and the
\* lookup of a release for the computed tag has just returned none; without
\* create_release, or with an existing release, there is no such call; and
\* its tag_name and name are the computed tag, its target the merge commit
\* sha, and generate_release_notes and make_latest mirror the inputs.
C18_ReleaseOnlyWhenAskedAndAbsent ==
    /\ \A i \in CallsTo("createRelease") :
          /\ inputs.createRelease
          /\ i > 1
          /\ calls[i - 1] = Call("getReleaseByTag", run.tagAsString, FALSE)
          /\ calls[i].arg = [tag_name |-> run.tagAsString,
                             target_commitish |-> pr.sha,
                             name |-> run.tagAsString,
                             generate_release_notes |-> inputs.generateNotes,
                             make_latest |-> IF inputs.markLatest THEN "true"
                                             ELSE "false"]
          /\ pr.sha = MergeSha
    /\ Cardinality(CallsTo("createRelease")) <= 1
    /\ ~inputs.createRelease =>
          CallsTo("getReleaseByTag") = {} /\ CallsTo("createRelease") = {}
    /\ (\E i \in CallsTo("getReleaseByTag") : calls[i].ok) =>
          CallsTo("createRelease") = {}

\* C18 witness: a release was created with generated notes and not as latest.
C18_Witness ==
    /\ run.pc = "done"
    /\ inputs.generateNotes /\ ~inputs.markLatest
    /\ \E i \in CallsTo("createRelease") :
          /\ calls[i].ok
          /\ calls[i].arg.generate_release_notes
          /\ calls[i].arg.make_latest = "false"
    /\ run.tagAsString \in host.releases

PreconditionFails == ~pr.present \/ (pr.merged /\ pr.sha = NoSha)

\* C20: without a pull-request context, or for a merged pull request without
\* a merge commit sha, run reports failure and has no effect: it makes no
\* call but, in the second case, the listing of the commits, and so creates or
\* updates no ref, no release and no comment.
C20_PreconditionFailureIsFatal ==
    PreconditionFails =>
        /\ run.pc = "done" => report.failed = 1
        /\ run.pc \in {"start", "listCommits", "done"}
        /\ \A i \in 1..Len(calls) : calls[i].api = "listCommits"
        /\ ~pr.present => calls = <<>>
        /\ host.releases = {}
        /\ \A k \in 1..Len(host.tags) : host.tags[k].sha = OtherSha
        /\ host.comments \in CommentLists

\* C20 witness: a merged pull request without merge commit sha failed after
\* its commits were listed.
C20_Witness ==
    /\ run.pc = "done"
    /\ pr.merged /\ pr.sha = NoSha
    /\ calls = <<Call("listCommits", Null, TRUE)>>
    /\ report.failed = 1

(***************************************************************************)
(* Properties of run: the comment.                                         *)
(***************************************************************************)
CommentWrites == {"updateComment", "createComment"}

\* The comment carries the start marker and was written by a bot.
IsOwnComment(c) == Includes(c.body, MarkerStart) /\ c.userType = "Bot"

\* C21: upsertPrComment writes exactly once per listing of the comments that
\* succeeds: it updates, by its id, a listed comment that carries the start
\* marker and was written by a Bot if there is one, and creates a comment if
\* there is none; a comment with the marker written by a user is never
\* updated.
C21_UpsertWritesOnce ==
    /\ run.pc = "updateComment" =>
          \E k \in 1..Len(host.comments) :
              host.comments[k].id = run.existing /\ IsOwnComment(host.comments[k])
    /\ run.pc = "createComment" =>
          \A k \in 1..Len(host.comments) : ~IsOwnComment(host.comments[k])
    /\ \A i \in 1..Len(calls) :
          /\ calls[i].api \in CommentWrites =>
                i > 1 /\ calls[i - 1] = Call("listComments", Null, TRUE)
          /\ (calls[i].api = "listComments" /\ calls[i].ok) =>
                IF i < Len(calls) THEN calls[i + 1].api \in CommentWrites
                ELSE run.pc \in CommentWrites
          /\ calls[i].api = "updateComment" =>
                \A k \in 1..Len(host.comments) :
                    host.comments[k].id = calls[i].arg.comment_id =>
                        host.comments[k].userType = "Bot"
    /\ \A k \in 1..Len(host.comments) :
          host.comments[k].userType = "User" => host.comments[k] = UserMarkerComment

\* C21 witness: the only comment with the marker was written by a user; it is
\* left as it was and a new comment is created.
C21_Witness ==
    /\ Len(calls) > 0
    /\ calls[Len(calls)].api = "createComment" /\ calls[Len(calls)].ok
    /\ Len(host.comments) = 2
    /\ host.comments[1] = UserMarkerComment
    /\ host.comments[2] = [id |-> 2, body |-> Wrapped(run.body), userType |-> "Bot"]

(***************************************************************************)
(* Repeated runs on a pull request that other people comment on.           *)
(***************************************************************************)
\* A comment of another user, without the marker.
OtherComment(id) == [id |-> id, body |-> <<"looks good">>, userType |-> "User"]

\* A pull request whose other comments fill the first page of the listing.
FullPageOfComments == [id \in 1..PerPage |-> OtherComment(id)]

\* A merged pull request of one commit, fix: bug, squashed into its merge
\* commit, with no comment yet or with a page of other comments.
InitSticky ==
    /\ StartRun
    /\ inputs \in {i \in InputValues : i.vPrefix /\ i.markLatest /\ i.generateNotes}
    /\ pr = [present |-> TRUE, merged |-> TRUE, sha |-> MergeSha]
    /\ \E comments \in {<<>>, FullPageOfComments} :
          host = [IdleHost EXCEPT !.commits = <<FixBug>>, !.mergeMessage = FixBug,
                                  !.tags = <<[name |-> V123, sha |-> OtherSha]>>,
                                  !.comments = comments]

SpecSticky == InitSticky /\ [][NextRerun]_vars

\* C22: over any number of runs on the same pull request, whatever other
\* comments it has, the action creates at most one comment with its marker;
\* every later run updates that comment instead of creating another.
C22_StickyComment ==
    Cardinality({i \in CallsTo("createComment") : calls[i].ok}) <= 1

(***************************************************************************)
(* Properties of run: the name of the tag.                                 *)
(***************************************************************************)
\* The name is three runs of digits separated by dots.
IsPlainVersion(name) ==
    LET a == DigitRun(name, 1)
        b == DigitRun(name, a + 2)
        c == DigitRun(name, a + b + 3)
    IN  /\ a > 0 /\ b > 0 /\ c > 0
        /\ CharAt(name, a + 1) = "." /\ CharAt(name, a + b + 2) = "."
        /\ Len(name) = a + b + c + 2

\* C23: within one run getRef is asked for tags/NAME, createRef is given
\* refs/tags/NAME, and the release is looked up and created under NAME, for
\* one and the same NAME, which is a version with a leading v exactly when
\* v_prefix is true, whatever the style of the existing tags.
C23_OneTagName ==
    /\ HasNextTag =>
          IF inputs.vPrefix
          THEN Head(run.tagAsString) = "v" /\ IsPlainVersion(Tail(run.tagAsString))
          ELSE IsPlainVersion(run.tagAsString)
    /\ \A i \in 1..Len(calls) :
          /\ calls[i].api = "getRef" => calls[i].arg = TagsPrefix \o run.tagAsString
          /\ calls[i].api = "createRef" =>
                calls[i].arg.ref = RefsTagsPrefix \o run.tagAsString
          /\ calls[i].api = "getReleaseByTag" => calls[i].arg = run.tagAsString
          /\ calls[i].api = "createRelease" =>
                /\ calls[i].arg.tag_name = run.tagAsString
                /\ calls[i].arg.name = run.tagAsString
          /\ calls[i].api \in {"getRef", "createRef", "getReleaseByTag", "createRelease"}
                => HasNextTag

\* C23 witness: with v_prefix false and the existing tag v1.2.3, the ref and
\* the release are created as 1.2.4.
C23_Witness ==
    /\ run.pc = "done"
    /\ ~inputs.vPrefix
    /\ run.allTags = <<V123>>
    /\ \E i \in CallsTo("getRef") :
          calls[i].arg = TagsPrefix \o <<"1", ".", "2", ".", "4">>
    /\ \E i \in CallsTo("createRef") :
          calls[i].ok /\ calls[i].arg.ref = RefsTagsPrefix \o <<"1", ".", "2", ".", "4">>
    /\ \E i \in CallsTo("createRelease") :
          calls[i].ok /\ calls[i].arg.tag_name = <<"1", ".", "2", ".", "4">>

(***************************************************************************)
(* The conversion of the inputs, index.ts 79-85.                           *)
(***************************************************************************)
TrueLit == <<"t", "r", "u", "e">>

\* A variant that compares without lowering the case.
BooleanInputCaseSensitive(raw) == raw = TrueLit

\* String(core.getInput(name) || "").toLowerCase() === "true"; core.getInput
\* hands out the empty string for an input that is not set.
BooleanInput(raw) == ToLowerCase(raw) = TrueLit

\* The values an input is drawn from: not set, spellings of true, others.
RawInputs ==
    {<<>>, TrueLit, <<"T", "R", "U", "E">>, <<"t", "R", "u", "E">>,
     <<"f", "a", "l", "s", "e">>, <<"t", "r", "u", "e", "e">>, <<"1">>}

InitInputs ==
    /\ \E a \in RawInputs, b \in RawInputs, c \in RawInputs, d \in RawInputs,
          e \in RawInputs :
            pure = [op |-> "inputs",
                    arg |-> [v_prefix |-> a, create_release |-> b,
                             mark_release_as_latest |-> c,
                             generate_release_notes |-> d, comment_pr |-> e],
                    done |-> FALSE, out |-> Null]
    /\ Idle

\* index.ts 80-85.
ConvertInputs ==
    /\ pure.op = "inputs" /\ ~pure.done
    /\ pure' = [pure EXCEPT !.done = TRUE]
    /\ inputs' = [vPrefix |-> BooleanInput(pure.arg.v_prefix),
                  createRelease |-> BooleanInput(pure.arg.create_release),
                  markLatest |-> BooleanInput(pure.arg.mark_release_as_latest),
                  generateNotes |-> BooleanInput(pure.arg.generate_release_notes),
                  commentPr |-> BooleanInput(pure.arg.comment_pr)]
    /\ UNCHANGED <<pr, host, run, calls, report>>

SpecInputs == InitInputs /\ [][ConvertInputs]_vars

\* The string is true in some mix of upper and lower case.
SpellsTrue(raw) ==
    /\ Len(raw) = 4
    /\ raw[1] \in {"t", "T"} /\ raw[2] \in {"r", "R"}
    /\ raw[3] \in {"u", "U"} /\ raw[4] \in {"e", "E"}

\* C24: each of the five boolean inputs is true exactly when its string
\* value is true in any letter case; every other value, the empty string of an
\* input that is not set included, is false.
C24_InputsParsedCaseInsensitively ==
    (pure.op = "inputs" /\ pure.done) =>
        /\ inputs.vPrefix = SpellsTrue(pure.arg.v_prefix)
        /\ inputs.createRelease = SpellsTrue(pure.arg.create_release)
        /\ inputs.markLatest = SpellsTrue(pure.arg.mark_release_as_latest)
        /\ inputs.generateNotes = SpellsTrue(pure.arg.generate_release_notes)
        /\ inputs.commentPr = SpellsTrue(pure.arg.comment_pr)

\* C24 witness: TRUE and tRuE are true; the unset input, truee and 1 are not.
C24_Witness ==
    /\ pure.op = "inputs" /\ pure.done
    /\ pure.arg = [v_prefix |-> <<"T", "R", "U", "E">>, create_release |-> <<>>,
                    mark_release_as_latest |-> <<"t", "R", "u", "E">>,
                    generate_release_notes |-> <<"t", "r", "u", "e", "e">>,
                    comment_pr |-> <<"1">>]
    /\ inputs = [vPrefix |-> TRUE, createRelease |-> FALSE, markLatest |-> TRUE,
                 generateNotes |-> FALSE, commentPr |-> FALSE]

(***************************************************************************)
(* A preview, the merge of the pull request, and the run that follows it.  *)
(***************************************************************************)
\* The pull request is merged after its preview and the workflow runs again
\* (index.ts 98-99, 109, 234-237); the log of host calls is kept.
Merge ==
    /\ run.pc = "done"
    /\ pr.present /\ ~pr.merged
    /\ pr' = [present |-> TRUE, merged |-> TRUE, sha |-> MergeSha]
    /\ run' = [IdleRun EXCEPT !.pc = "start"]
    /\ report' = [failed |-> 0, warnings |-> 0]
    /\ UNCHANGED <<pure, inputs, host, calls>>

\* An open pull request of one commit with comment_pr on; the merge commit
\* will carry a merge message, a breaking one, or the commit's own.
InitMerge ==
    /\ StartRun
    /\ inputs \in {i \in InputValues : i.commentPr /\ i.markLatest /\ i.generateNotes}
    /\ pr = [present |-> TRUE, merged |-> FALSE, sha |-> NoSha]
    /\ \E m \in BumpMessages, tags \in {<<>>, <<[name |-> V123, sha |-> OtherSha]>>} :
       \E mergeMessage \in MergeMessages \cup {m} :
          host = [IdleHost EXCEPT !.commits = <<m>>, !.mergeMessage = mergeMessage,
                                  !.tags = tags]

NextMerge ==
    \/ Next
    \/ Merge

SpecMerge == InitMerge /\ [][NextMerge]_vars

\* The comment body announces a next tag as a preview.
IsPreviewBody(body) ==
    /\ Len(body) > 9
    /\ body[3] = "Next tag: "
    /\ body[Len(body) - 2] = "Status: Preview only"

\* The tag a preview body announces.
AnnouncedTag(body) == SubSeq(body, 4, Len(body) - 7)

\* The run on the merged pull request has ended, no host call but a lookup
\* having failed and no other actor having pushed a tag.
MergedRunEnded ==
    /\ pr.merged
    /\ run.pc = "done"
    /\ report.failed = 0
    /\ ~host.raced
    /\ \A j \in 1..Len(calls) :
          calls[j].api \notin {"getRef", "getReleaseByTag", "createRelease"}
              => calls[j].ok

\* C26: when the preview of a pull request has announced next tag T in its
\* comment, the run on the same pull request once merged, with the same
\* commits and host tags, creates the ref of T, whatever the message of the
\* merge commit.
C26_PreviewAgreesWithMerge ==
    \A i \in 1..Len(calls) :
        (/\ calls[i].api \in CommentWrites
         /\ calls[i].ok
         /\ IsPreviewBody(calls[i].arg.body)
         /\ MergedRunEnded)
            => \E j \in CallsTo("createRef") :
                  /\ j > i
                  /\ calls[j].ok
                  /\ calls[j].arg.ref = RefsTagsPrefix \o AnnouncedTag(calls[i].arg.body)

(***************************************************************************)
(* Repeated runs for every bump and tag list.                              *)
(***************************************************************************)
\* A merged pull request of one commit with a bump, squashed into its merge
\* commit, against every tag list, with create_release and comment_pr off.
InitRuns ==
    /\ StartRun
    /\ inputs \in {i \in InputValues : /\ ~i.createRelease /\ ~i.commentPr
                                       /\ ~i.markLatest /\ ~i.generateNotes}
    /\ pr = [present |-> TRUE, merged |-> TRUE, sha |-> MergeSha]
    /\ \E m \in {FixBug, FeatX, MajorBang}, tags \in TagLists :
          host = [IdleHost EXCEPT !.commits = <<m>>, !.mergeMessage = m, !.tags = tags]

\* The steps of run with neither comment nor release asked for, in runs that
\* follow one another with no other actor pushing tags.
NextRuns ==
    \/ Start
    \/ ListCommits
    \/ GetCommit
    \/ ListTags
    \/ GetRef
    \/ CreateRef
    \/ Rerun

SpecRuns == InitRuns /\ [][NextRuns]_vars

\* C27: the version run computes as next tag is greater than the version of
\* every parseable name of the tag list it read, for every bump; so it is the
\* version of no listed tag, in either prefix style, and the parseable tags
\* of the host keep pairwise distinct versions from run to run.
C27_NextTagIsNew ==
    /\ HasNextTag =>
          /\ \A v \in ParseableVersions(run.allTags) : Lexicographic(run.newTag, v) = 1
          /\ \A i \in 1..Len(run.allTags) :
                /\ run.allTags[i] # run.tagAsString
                /\ parseTagFromName(run.allTags[i]) # run.newTag
    /\ \A a, b \in 1..Len(host.tags) :
          (a # b /\ parseTagFromName(host.tags[a].name) # Null)
              => parseTagFromName(host.tags[a].name) # parseTagFromName(host.tags[b].name)

\* C27 witness: after v2.0.0 was created over v1.2.3 and 1.10.0, the next run
\* computes 3.0.0.
C27_Witness ==
    /\ HasNextTag
    /\ run.allTags = <<V123, Plain1100, <<"v", "2", ".", "0", ".", "0">>>>
    /\ run.newTag = <<3, 0, 0>>
    /\ Cardinality(CallsTo("createRef")) = 1

(***************************************************************************)
(* Properties of run: the order of the calls, failures, the comment gate.  *)
(***************************************************************************)
\* C28: within a run createRef is called at most once, and only right after
\* a getRef for the same tag name that failed; createRelease is called at
\* most once, after the getRef and after a createRef, if there is one, that
\* has succeeded, and neither getRef nor createRef is called after it.
C28_CallOrder ==
    /\ Cardinality(CallsTo("getRef")) <= 1
    /\ Cardinality(CallsTo("createRef")) <= 1
    /\ Cardinality(CallsTo("createRelease")) <= 1
    /\ \A i \in CallsTo("createRef") :
          /\ i > 1
          /\ calls[i - 1].api = "getRef" /\ ~calls[i - 1].ok
          /\ TagOfRef(calls[i - 1].arg, TagsPrefix)
                = TagOfRef(calls[i].arg.ref, RefsTagsPrefix)
    /\ \A k \in CallsTo("getReleaseByTag") \cup CallsTo("createRelease") :
          /\ \E j \in CallsTo("getRef") : j < k
          /\ \A j \in CallsTo("getRef") \cup CallsTo("createRef") : j < k
          /\ \A j \in CallsTo("createRef") : calls[j].ok
          /\ (\E j \in CallsTo("getRef") : calls[j].ok) \/ CallsTo("createRef") # {}

\* C28 witness: getRef failed, createRef, the lookup of the release and
\* createRelease followed in this order.
C28_Witness ==
    /\ run.pc = "done"
    /\ Len(calls) >= 4
    /\ calls[Len(calls) - 3].api = "getRef" /\ ~calls[Len(calls) - 3].ok
    /\ calls[Len(calls) - 2].api = "createRef" /\ calls[Len(calls) - 2].ok
    /\ calls[Len(calls) - 1].api = "getReleaseByTag"
    /\ calls[Len(calls)].api = "createRelease" /\ calls[Len(calls)].ok

\* The host calls whose failure run does not handle where it calls them.
NotTolerated ==
    {"listCommits", "listTags", "listComments", "updateComment", "createComment",
     "createRef"}

\* C29: run never lets an exception out: a failure of a host call it does
\* not tolerate locally ends the run with exactly one setFailed and no
\* further host call; a failure to read the merge commit is tolerated, and
\* the commits of the pull request alone are classified.
C29_FailuresEndTheRun ==
    /\ report.failed <= 1
    /\ \A i \in 1..Len(calls) :
          (calls[i].api \in NotTolerated /\ ~calls[i].ok) =>
              /\ i = Len(calls)
              /\ run.pc = "done"
              /\ report.failed = 1
    /\ \A i \in CallsTo("getCommit") :
          ~calls[i].ok =>
              /\ run.commitMessages = host.commits
              /\ run.versionToIncrease = detectVersionIncrease(Join(host.commits, <<",">>))
              /\ i = Len(calls) => report.failed = 0 /\ run.pc # "getCommit"

\* C29 witness: the merge commit could not be read, the bump came from the
\* commit of the pull request, and the listing of the tags then failed.
C29_Witness ==
    /\ run.pc = "done"
    /\ Len(calls) = 3
    /\ calls[2].api = "getCommit" /\ ~calls[2].ok
    /\ run.commitMessages = <<FixBug>>
    /\ run.versionToIncrease = "patch"
    /\ host.mergeMessage = MergePR
    /\ calls[3].api = "listTags" /\ ~calls[3].ok
    /\ report.failed = 1

\* The calls of upsertPrComment.
CommentCalls == {"listComments", "updateComment", "createComment"}

\* C30: with comment_pr false run calls none of listComments, createComment
\* and updateComment; with comment_pr true a run that has classified its
\* commits and ends without failure has made one upsert, one listing and one
\* write, with the body for the missing bump or for the next tag, and the
\* upsert comes before any getRef or createRef.
C30_CommentGate ==
    /\ ~inputs.commentPr =>
          \A i \in 1..Len(calls) : calls[i].api \notin CommentCalls
    /\ Cardinality(CallsTo("listComments")) <= 1
    /\ Cardinality(CallsTo("updateComment") \cup CallsTo("createComment")) <= 1
    /\ (inputs.commentPr /\ HasClassified /\ run.pc = "done" /\ report.failed = 0) =>
          /\ Cardinality(CallsTo("listComments")) = 1
          /\ \E i \in CallsTo("updateComment") \cup CallsTo("createComment") :
                calls[i].arg.body =
                    Wrapped(IF run.versionToIncrease = NullBump THEN NoBumpBody
                            ELSE NextTagBody(run.tagAsString, run.versionToIncrease,
                                             inputs.vPrefix, pr.merged))
    /\ \A i, j \in 1..Len(calls) :
          (calls[i].api \in CommentCalls /\ calls[j].api \in {"getRef", "createRef"})
              => i < j

\* C30 witness: a merged run with comment_pr wrote its comment and then
\* checked and created the ref.
C30_Witness ==
    /\ run.pc = "done"
    /\ inputs.commentPr
    /\ report.failed = 0
    /\ Len(calls) >= 4
    /\ calls[Len(calls) - 3].api = "listComments"
    /\ calls[Len(calls) - 2].api = "createComment"
    /\ calls[Len(calls) - 1].api = "getRef"
    /\ calls[Len(calls)].api = "createRef" /\ calls[Len(calls)].ok

====
